---- MODULE Spec2Model ----
(***************************************************************************)
(* Hypervolume indicator scorer (src/hv.py).                               *)
(*                                                                         *)
(* Specifications over one set of variables:                               *)
(*   SpecFeasible  the pure function feasible(solution)                    *)
(*   SpecPareto    the loop of is_pareto_efficient(costs)                  *)
(*   Spec          one invocation of main() under the __main__ guard       *)
(*   FairSpec      Spec, with main() running until it ends                 *)
(*                                                                         *)
(* pygmo (pareto_dominance, nadir, hypervolume) and numpy (unique) are     *)
(* modelled by what they compute and by the inputs they reject.            *)
(*                                                                         *)
(* JSON numbers are modelled by integers.  A JSON value that may be null   *)
(* is a record [null, num]; Python's None is the record Null.              *)
(***************************************************************************)
EXTENDS Integers, Sequences, FiniteSets, TLC

\* ---------------------------------------------------------------- bounds
\* number of objectives d; objectives and reference points of d - 1 numbers
\* are explored next to those of d
Dim == 2
\* objective coordinates range over 0..MaxVal
MaxVal == 2
\* largest number of solutions in solutions_scored
MaxPop == 2
\* longest objective / constraint vector handed to feasible() in SpecFeasible
MaxFLen == 2
\* coordinates of the costs handed to is_pareto_efficient in SpecPareto
MaxCost == 1
\* largest number of rows of costs in SpecPareto
MaxCosts == 3

\* ---------------------------------------------------------------- JSON values
Null == [null |-> TRUE, num |-> 0]

Num(n) == [null |-> FALSE, num |-> n]

\* sequences over S of length lo..hi
SeqsOf(S, lo, hi) == UNION {[1..n -> S] : n \in lo..hi}

Range(s) == {s[i] : i \in DOMAIN s}

\* the list of numbers of a JSON array without null
Numbers(v) == [i \in DOMAIN v |-> v[i].num]

\* a constraint: absent key, JSON null, a number, or an array
NoConstraint == [kind |-> "absent", val |-> <<>>]

NullConstraint == [kind |-> "null", val |-> <<>>]

ScalarConstraint(x) == [kind |-> "scalar", val |-> <<Num(x)>>]

VectorConstraint(v) == [kind |-> "vector", val |-> v]

Solution(o, c) == [objective |-> o, constraint |-> c]

\* ---------------------------------------------------------------- feasible
\* solution.get("constraint") is None: the key is absent or its value is null
ConstraintIsNone(solution) == solution.constraint.kind \in {"absent", "null"}

\* None not in np.array(objective)
NoneNotInObjective(solution) ==
    \A i \in DOMAIN solution.objective : ~solution.objective[i].null

\* np.array(constraint) <= 0.0 compares every element; None <= 0.0 raises TypeError
ConstraintCompareRaises(solution) ==
    \E i \in DOMAIN solution.constraint.val : solution.constraint.val[i].null

\* np.all(np.array(constraint) <= 0.0), for a constraint without None
ConstraintAllLeqZero(solution) ==
    \A i \in DOMAIN solution.constraint.val : solution.constraint.val[i].num <= 0

\* feasible() with the constraint looked at before the objective
feasibleConstraintFirst(solution) ==
    IF ConstraintIsNone(solution) THEN
        IF NoneNotInObjective(solution) THEN "True" ELSE "False"
    ELSE IF ConstraintCompareRaises(solution) THEN "TypeError"
    ELSE IF ~ConstraintAllLeqZero(solution) THEN "False"
    ELSE IF NoneNotInObjective(solution) THEN "True" ELSE "False"

\* feasible(): "True", "False", or the exception it raises.  `and` and `or`
\* short-circuit, left to right.
feasible(solution) ==
    IF ~NoneNotInObjective(solution) THEN "False"
    ELSE IF ConstraintIsNone(solution) THEN "True"
    ELSE IF ConstraintCompareRaises(solution) THEN "TypeError"
    ELSE IF ConstraintAllLeqZero(solution) THEN "True" ELSE "False"

\* ---------------------------------------------------------------- pygmo.pareto_dominance
\* pareto_dominance(obj1, obj2) raises ValueError when the lengths differ
ParetoDominanceRaises(obj1, obj2) == Len(obj1) # Len(obj2)

\* strict dominance in every coordinate
StrictlyBelow(obj1, obj2) == \A i \in DOMAIN obj1 : obj1[i] < obj2[i]

\* pareto_dominance(obj1, obj2): obj1 is no worse everywhere and better somewhere
ParetoDominance(obj1, obj2) ==
    /\ \A i \in DOMAIN obj1 : obj1[i] <= obj2[i]
    /\ \E i \in DOMAIN obj1 : obj1[i] < obj2[i]

\* ---------------------------------------------------------------- pygmo.nadir
Max(S) == CHOOSE x \in S : \A y \in S : y <= x

\* nadir(points) raises ValueError for fewer than two points (the non-dominated
\* sorting it starts with needs two) and for points that differ in length
NadirRaises(points) ==
    \/ Len(points) < 2
    \/ \E i, j \in DOMAIN points : Len(points[i]) # Len(points[j])

\* the first front of fast_non_dominated_sorting: the points no point dominates
FirstFront(points) ==
    {i \in DOMAIN points : \A j \in DOMAIN points : ~ParetoDominance(points[j], points[i])}

\* the coordinate-wise maximum over every point, dominated or not
NadirOfAll(points) ==
    [k \in DOMAIN points[1] |-> Max({points[i][k] : i \in DOMAIN points})]

\* nadir(points): the coordinate-wise maximum over the non-dominated front
Nadir(points) ==
    [k \in DOMAIN points[1] |-> Max({points[i][k] : i \in FirstFront(points)})]

\* ---------------------------------------------------------------- np.unique(axis=0)
\* a before b in lexicographic order (rows of equal length)
LexLess(a, b) ==
    \E k \in DOMAIN a :
        /\ a[k] < b[k]
        /\ \A j \in 1..(k - 1) : a[j] = b[j]

RECURSIVE SortRows(_)
SortRows(S) ==
    IF S = {} THEN <<>>
    ELSE LET m == CHOOSE a \in S : \A b \in S \ {a} : LexLess(a, b)
         IN  <<m>> \o SortRows(S \ {m})

\* np.unique(rows, axis=0): the distinct rows, sorted
NpUnique(rows) == SortRows(Range(rows))

\* ---------------------------------------------------------------- is_pareto_efficient
\* one round of the loop body for row i (is_efficient[i] holds):
\*   is_efficient[is_efficient] = np.any(costs[is_efficient] < cost, axis=1)
\*   is_efficient[i] = True
\* the round with the comparison turned around (keeps the higher costs)
ParetoRoundHigher(costs, is_eff, i) ==
    [j \in DOMAIN costs |->
        IF j = i THEN TRUE
        ELSE is_eff[j] /\ \E k \in DOMAIN costs[j] : costs[j][k] > costs[i][k]]

ParetoRound(costs, is_eff, i) ==
    [j \in DOMAIN costs |->
        IF j = i THEN TRUE
        ELSE is_eff[j] /\ \E k \in DOMAIN costs[j] : costs[j][k] < costs[i][k]]

\* the loop body without `if is_efficient[i]`
ParetoStepUnguarded(costs, is_eff, i) == ParetoRound(costs, is_eff, i)

\* the loop body for row i
ParetoStep(costs, is_eff, i) ==
    IF is_eff[i] THEN ParetoRound(costs, is_eff, i) ELSE is_eff

RECURSIVE ParetoLoop(_, _, _)
ParetoLoop(costs, is_eff, i) ==
    IF i > Len(costs) THEN is_eff
    ELSE ParetoLoop(costs, ParetoStep(costs, is_eff, i), i + 1)

\* is_pareto_efficient(costs): the mask after the loop
is_pareto_efficient(costs) ==
    ParetoLoop(costs, [j \in DOMAIN costs |-> TRUE], 1)

\* costs[mask]: the rows whose mask entry is True, in index order
RECURSIVE SelectRows(_, _)
SelectRows(costs, mask) ==
    IF costs = <<>> THEN <<>>
    ELSE (IF Head(mask) THEN <<Head(costs)>> ELSE <<>>)
             \o SelectRows(Tail(costs), Tail(mask))

\* ---------------------------------------------------------------- pygmo.hypervolume
RECURSIVE Product(_)
Product(s) == IF s = <<>> THEN 1 ELSE Head(s) * Product(Tail(s))

\* volume of the box [p, r]
BoxVolume(p, r) == Product([k \in DOMAIN p |-> r[k] - p[k]])

\* the point that is the worse of p and q in every coordinate
Worse(p, q) == [k \in DOMAIN p |-> IF p[k] > q[k] THEN p[k] ELSE q[k]]

\* hypervolume(points) and compute(r) raise ValueError for an empty point set,
\* for points of fewer than two objectives, for a reference point of another
\* length, and for a reference point that some point does not dominate
HypervolumeRaises(points, r) ==
    \/ points = <<>>
    \/ \E i \in DOMAIN points :
        \/ Len(points[i]) < 2
        \/ Len(points[i]) # Len(r)
        \/ \E k \in DOMAIN r : r[k] < points[i][k]
        \/ \A k \in DOMAIN r : r[k] = points[i][k]

\* hypervolume(points).compute(r): the exclusive volume of the first point
\* plus the volume of the rest (WFG)
RECURSIVE Hypervolume(_, _)
Hypervolume(points, r) ==
    IF points = <<>> THEN 0
    ELSE LET p == Head(points)
             rest == Tail(points)
             limited == [j \in DOMAIN rest |-> Worse(p, rest[j])]
         IN  BoxVolume(p, r) - Hypervolume(limited, r) + Hypervolume(rest, r)

\* ---------------------------------------------------------------- state
VARIABLES
    pc,                      \* stage of main(): Start .. Scored | ZeroScore | Fatal
    json_solution_to_score,  \* first input line: [text, value]
    json_solutions_scored,   \* second input line: [text, value]
    arg_ref_point,           \* --ref-point as given: [isNone, val]
    ref_point,               \* the local ref_point of main()
    feasible_objectives,
    hv_objectives,
    unique_hv_objectives,
    efficient_objectives,
    out,                     \* the objects printed so far
    fpc, fsolution, fresult, \* SpecFeasible: a call of feasible(fsolution)
    ppc, costs, is_efficient, idx  \* SpecPareto: the loop of is_pareto_efficient(costs)

vars == <<pc, json_solution_to_score, json_solutions_scored, arg_ref_point, ref_point,
          feasible_objectives, hv_objectives, unique_hv_objectives,
          efficient_objectives, out, fpc, fsolution, fresult,
          ppc, costs, is_efficient, idx>>

mainVars == <<pc, json_solution_to_score, json_solutions_scored, arg_ref_point, ref_point,
              feasible_objectives, hv_objectives, unique_hv_objectives,
              efficient_objectives, out>>

feasibleVars == <<fpc, fsolution, fresult>>

paretoVars == <<ppc, costs, is_efficient, idx>>

\* ---------------------------------------------------------------- output objects
\* {"score": score}
ScoreObject(score) == [score |-> Num(score), error |-> "none"]

\* {"score": None, "error": str(e)}
ErrorObject(e) == [score |-> Null, error |-> e]

\* `except Exception` that also catches SystemExit
CaughtIncludingExit(exc) == exc # "none"

\* `except Exception` of the __main__ guard: ctx.exit() ends in SystemExit,
\* which is no Exception
Caught(exc) == exc \notin {"none", "SystemExit"}

\* what the __main__ guard prints for an exception leaving main()
Guard(exc) == IF Caught(exc) THEN <<ErrorObject(exc)>> ELSE <<>>

\* ---------------------------------------------------------------- stages of main()
\* json.loads and validate of both input lines: the exception raised, or "none"
ParseRaises(js, jss) ==
    IF js.text = "malformed" THEN "JSONDecodeError"
    ELSE IF js.text # "object" THEN "ValidationError"
    ELSE IF jss.text = "malformed" THEN "JSONDecodeError"
    ELSE IF jss.text # "array" THEN "ValidationError"
    ELSE "none"

\* [s["objective"] for s in solutions if feasible(s)]
RECURSIVE FeasibleOf(_)
FeasibleOf(solutions) ==
    IF solutions = <<>> THEN <<>>
    ELSE (IF feasible(Head(solutions)) = "True"
          THEN <<Numbers(Head(solutions).objective)>> ELSE <<>>)
             \o FeasibleOf(Tail(solutions))

\* lines 165-211: read, parse, validate, filter the feasible solutions
ClassifyStage(js, jss) ==
    LET exc == ParseRaises(js, jss)
        all == Append(jss.value, js.value)
    IN  IF exc # "none"
        THEN [pc |-> "Fatal", feasible_objectives |-> <<>>, out |-> Guard(exc)]
        ELSE IF \E i \in DOMAIN all : feasible(all[i]) = "TypeError"
        THEN [pc |-> "Fatal", feasible_objectives |-> <<>>, out |-> Guard("TypeError")]
        ELSE IF FeasibleOf(all) = <<>>
        THEN [pc |-> "ZeroScore", feasible_objectives |-> <<>>,
              out |-> <<ScoreObject(0)>> \o Guard("SystemExit")]
        ELSE [pc |-> "Classified", feasible_objectives |-> FeasibleOf(all), out |-> <<>>]

\* `not ref_point`
NotRefPoint(ref) == ref.isNone \/ ref.val = <<>>

\* the stage without the exit for a single feasible point
ResolveStageNoShortcut(fo, ref) ==
    IF ~NotRefPoint(ref)
    THEN [pc |-> "RefPointResolved", ref_point |-> ref, out |-> <<>>]
    ELSE IF NadirRaises(fo)
    THEN [pc |-> "Fatal", ref_point |-> ref, out |-> Guard("ValueError")]
    ELSE [pc |-> "RefPointResolved",
          ref_point |-> [isNone |-> FALSE, val |-> Nadir(fo)], out |-> <<>>]

\* lines 213-231: the reference point, the nadir point when none is given
ResolveStage(fo, ref) ==
    IF ~NotRefPoint(ref)
    THEN [pc |-> "RefPointResolved", ref_point |-> ref, out |-> <<>>]
    ELSE IF Len(fo) = 1
    THEN [pc |-> "ZeroScore", ref_point |-> ref,
          out |-> <<ScoreObject(0)>> \o Guard("SystemExit")]
    ELSE IF NadirRaises(fo)
    THEN [pc |-> "Fatal", ref_point |-> ref, out |-> Guard("ValueError")]
    ELSE [pc |-> "RefPointResolved",
          ref_point |-> [isNone |-> FALSE, val |-> Nadir(fo)], out |-> <<>>]

\* the pruning step that keeps every point
DominancePruneNone(fo, r) == fo

\* the pruning step with strict dominance in every coordinate
DominancePruneStrict(fo, r) == SelectSeq(fo, LAMBDA y : StrictlyBelow(y, r))

\* [y for y in feasible_objectives if pareto_dominance(y, ref_point)]
DominancePrune(fo, r) == SelectSeq(fo, LAMBDA y : ParetoDominance(y, r))

\* lines 237-243
PruneStage(fo, ref) ==
    IF \E i \in DOMAIN fo : ParetoDominanceRaises(fo[i], ref.val)
    THEN [pc |-> "Fatal", hv_objectives |-> <<>>, out |-> Guard("ValueError")]
    ELSE [pc |-> "Pruned", hv_objectives |-> DominancePrune(fo, ref.val), out |-> <<>>]

\* lines 245-249
DedupStage(hv) == [pc |-> "Deduplicated", unique_hv_objectives |-> NpUnique(hv)]

\* the stage without the exit for an empty front
FrontStageNoExit(unique) ==
    [pc |-> "FrontComputed",
     efficient_objectives |-> SelectRows(unique, is_pareto_efficient(unique)),
     out |-> <<>>]

\* lines 251-262
FrontStage(unique) ==
    LET eff == SelectRows(unique, is_pareto_efficient(unique))
    IN  IF Len(eff) = 0
        THEN [pc |-> "ZeroScore", efficient_objectives |-> eff,
              out |-> <<ScoreObject(0)>> \o Guard("SystemExit")]
        ELSE [pc |-> "FrontComputed", efficient_objectives |-> eff, out |-> <<>>]

\* lines 264-273, and click's ctx.exit() once main() returns
HVStage(eff, ref) ==
    IF HypervolumeRaises(eff, ref.val)
    THEN [pc |-> "Fatal", out |-> Guard("ValueError")]
    ELSE [pc |-> "Scored",
          out |-> <<ScoreObject(Hypervolume(eff, ref.val))>> \o Guard("SystemExit")]

\* everything one invocation prints
RunMain(js, jss, ref) ==
    LET c == ClassifyStage(js, jss) IN
    IF c.pc # "Classified" THEN c.out ELSE
    LET r == ResolveStage(c.feasible_objectives, ref) IN
    IF r.pc # "RefPointResolved" THEN r.out ELSE
    LET p == PruneStage(c.feasible_objectives, r.ref_point) IN
    IF p.pc # "Pruned" THEN p.out ELSE
    LET d == DedupStage(p.hv_objectives)
        f == FrontStage(d.unique_hv_objectives) IN
    IF f.pc # "FrontComputed" THEN f.out ELSE
    HVStage(f.efficient_objectives, r.ref_point).out

\* ---------------------------------------------------------------- inputs
Points == [1..Dim -> 0..MaxVal]

ToJson(p) == [k \in DOMAIN p |-> Num(p[k])]

Origin == [k \in 1..Dim |-> 0]

\* objectives and reference points with one objective less
ShortPoints(S) == [1..(Dim - 1) -> S]

\* the solutions of the invocations explored: every point without constraint,
\* at the best point a violated constraint, a missing objective component and
\* a constraint with a missing component, and objectives of another length
MainSolutions ==
    {Solution(ToJson(p), NoConstraint) : p \in Points}
        \cup {Solution(ToJson(Origin), VectorConstraint(<<Num(0), Num(1)>>)),
              Solution([ToJson(Origin) EXCEPT ![1] = Null], ScalarConstraint(0)),
              Solution(ToJson(Origin), VectorConstraint(<<Null>>))}
        \cup {Solution(ToJson(p), NoConstraint) : p \in ShortPoints({0, MaxVal})}

\* --ref-point: None, [], a point of 0..MaxVal+1, or a list of another length
RefNone == [isNone |-> TRUE, val |-> <<>>]

RefList(v) == [isNone |-> FALSE, val |-> v]

SuppliedRefPoints ==
    {RefList(v) : v \in [1..Dim -> 0..(MaxVal + 1)] \cup ShortPoints({0, MaxVal + 1})}

RefPoints == {RefNone, RefList(<<>>)} \cup SuppliedRefPoints

\* the two input lines: well-formed JSON of the right type, JSON of another
\* type, or text that is not JSON
ObjectLine(s) == [text |-> "object", value |-> s]

ArrayLine(ss) == [text |-> "array", value |-> ss]

BadLines == {[text |-> t, value |-> <<>>] : t \in {"malformed", "number"}}

\* ---------------------------------------------------------------- main()
IdleFeasible ==
    /\ fpc = "idle"
    /\ fsolution = Solution(<<>>, NoConstraint)
    /\ fresult = "none"

IdlePareto ==
    /\ ppc = "idle"
    /\ costs = <<>>
    /\ is_efficient = <<>>
    /\ idx = 0

IdleMain ==
    /\ pc = "idle"
    /\ json_solution_to_score = ObjectLine(Solution(<<>>, NoConstraint))
    /\ json_solutions_scored = ArrayLine(<<>>)
    /\ arg_ref_point = RefNone
    /\ ref_point = RefNone
    /\ feasible_objectives = <<>>
    /\ hv_objectives = <<>>
    /\ unique_hv_objectives = <<>>
    /\ efficient_objectives = <<>>
    /\ out = <<>>

Init ==
    /\ pc = "Start"
    /\ \/ /\ json_solution_to_score \in {ObjectLine(s) : s \in MainSolutions}
          /\ json_solutions_scored \in
                 {ArrayLine(ss) : ss \in SeqsOf(MainSolutions, 0, MaxPop)}
       \/ /\ json_solution_to_score \in
                 BadLines \cup {ObjectLine(Solution(ToJson(Origin), NoConstraint))}
          /\ json_solutions_scored \in BadLines
       \/ /\ json_solution_to_score \in BadLines
          /\ json_solutions_scored = ArrayLine(<<>>)
    /\ arg_ref_point \in RefPoints
    /\ ref_point = arg_ref_point
    /\ feasible_objectives = <<>>
    /\ hv_objectives = <<>>
    /\ unique_hv_objectives = <<>>
    /\ efficient_objectives = <<>>
    /\ out = <<>>
    /\ IdleFeasible
    /\ IdlePareto

Classify ==
    /\ pc = "Start"
    /\ LET c == ClassifyStage(json_solution_to_score, json_solutions_scored)
       IN  /\ pc' = c.pc
           /\ feasible_objectives' = c.feasible_objectives
           /\ out' = out \o c.out
    /\ UNCHANGED <<json_solution_to_score, json_solutions_scored, arg_ref_point, ref_point,
                   hv_objectives, unique_hv_objectives, efficient_objectives>>
    /\ UNCHANGED <<feasibleVars, paretoVars>>

ResolveRefPoint ==
    /\ pc = "Classified"
    /\ LET r == ResolveStage(feasible_objectives, ref_point)
       IN  /\ pc' = r.pc
           /\ ref_point' = r.ref_point
           /\ out' = out \o r.out
    /\ UNCHANGED <<json_solution_to_score, json_solutions_scored, arg_ref_point,
                   feasible_objectives,
                   hv_objectives, unique_hv_objectives, efficient_objectives>>
    /\ UNCHANGED <<feasibleVars, paretoVars>>

Prune ==
    /\ pc = "RefPointResolved"
    /\ LET p == PruneStage(feasible_objectives, ref_point)
       IN  /\ pc' = p.pc
           /\ hv_objectives' = p.hv_objectives
           /\ out' = out \o p.out
    /\ UNCHANGED <<json_solution_to_score, json_solutions_scored, arg_ref_point, ref_point,
                   feasible_objectives, unique_hv_objectives, efficient_objectives>>
    /\ UNCHANGED <<feasibleVars, paretoVars>>

Deduplicate ==
    /\ pc = "Pruned"
    /\ LET d == DedupStage(hv_objectives)
       IN  /\ pc' = d.pc
           /\ unique_hv_objectives' = d.unique_hv_objectives
    /\ UNCHANGED <<json_solution_to_score, json_solutions_scored, arg_ref_point, ref_point,
                   feasible_objectives, hv_objectives, efficient_objectives, out>>
    /\ UNCHANGED <<feasibleVars, paretoVars>>

ComputeFront ==
    /\ pc = "Deduplicated"
    /\ LET f == FrontStage(unique_hv_objectives)
       IN  /\ pc' = f.pc
           /\ efficient_objectives' = f.efficient_objectives
           /\ out' = out \o f.out
    /\ UNCHANGED <<json_solution_to_score, json_solutions_scored, arg_ref_point, ref_point,
                   feasible_objectives, hv_objectives, unique_hv_objectives>>
    /\ UNCHANGED <<feasibleVars, paretoVars>>

ComputeHV ==
    /\ pc = "FrontComputed"
    /\ LET h == HVStage(efficient_objectives, ref_point)
       IN  /\ pc' = h.pc
           /\ out' = out \o h.out
    /\ UNCHANGED <<json_solution_to_score, json_solutions_scored, arg_ref_point, ref_point,
                   feasible_objectives, hv_objectives, unique_hv_objectives,
                   efficient_objectives>>
    /\ UNCHANGED <<feasibleVars, paretoVars>>

Next ==
    \/ Classify
    \/ ResolveRefPoint
    \/ Prune
    \/ Deduplicate
    \/ ComputeFront
    \/ ComputeHV

Spec == Init /\ [][Next]_vars

\* ---------------------------------------------------------------- feasible() alone
FValues == {Null} \cup {Num(n) : n \in -1..1}

FConstraints ==
    {NoConstraint, NullConstraint}
        \cup {ScalarConstraint(x) : x \in -1..1}
        \cup {VectorConstraint(v) : v \in SeqsOf(FValues, 0, MaxFLen)}

FSolutions ==
    {Solution(o, c) : o \in SeqsOf({Null, Num(0), Num(1)}, 0, MaxFLen),
                      c \in FConstraints}

InitFeasible ==
    /\ fpc = "call"
    /\ fsolution \in FSolutions
    /\ fresult = "none"
    /\ IdleMain
    /\ IdlePareto

CallFeasible ==
    /\ fpc = "call"
    /\ fresult' = feasible(fsolution)
    /\ fpc' = "returned"
    /\ UNCHANGED <<fsolution, mainVars, paretoVars>>

NextFeasible == CallFeasible

SpecFeasible == InitFeasible /\ [][NextFeasible]_vars

\* ---------------------------------------------------------------- is_pareto_efficient() alone
CostRows == [1..Dim -> 0..MaxCost]

\* duplicate-free arrays of costs, in every index order
CostArrays ==
    {c \in SeqsOf(CostRows, 0, MaxCosts) : \A i, j \in DOMAIN c : c[i] = c[j] => i = j}

InitPareto ==
    /\ ppc = "loop"
    /\ costs \in CostArrays
    /\ is_efficient = [j \in DOMAIN costs |-> TRUE]
    /\ idx = 1
    /\ IdleMain
    /\ IdleFeasible

ParetoIterate ==
    /\ ppc = "loop"
    /\ idx <= Len(costs)
    /\ is_efficient' = ParetoStep(costs, is_efficient, idx)
    /\ idx' = idx + 1
    /\ UNCHANGED <<ppc, costs, mainVars, feasibleVars>>

ParetoReturn ==
    /\ ppc = "loop"
    /\ idx > Len(costs)
    /\ ppc' = "returned"
    /\ UNCHANGED <<costs, is_efficient, idx, mainVars, feasibleVars>>

NextPareto ==
    \/ ParetoIterate
    \/ ParetoReturn

SpecPareto == InitPareto /\ [][NextPareto]_vars

\* ---------------------------------------------------------------- properties
Terminal == {"Scored", "ZeroScore", "Fatal"}

\* both input lines parse and validate, and no constraint holds a null next
\* to a complete objective
WellFormed ==
    /\ ParseRaises(json_solution_to_score, json_solutions_scored) = "none"
    /\ \A s \in Range(Append(json_solutions_scored.value, json_solution_to_score.value)) :
           feasible(s) # "TypeError"

Supplied(ref) == ~ref.isNone /\ ref.val # <<>>

\* every feasible objective has the length of r
MatchingDimension(r) == \A i \in DOMAIN feasible_objectives : Len(feasible_objectives[i]) = Len(r)

\* every feasible objective has the same length
EqualDimensions ==
    \A i, j \in DOMAIN feasible_objectives :
        Len(feasible_objectives[i]) = Len(feasible_objectives[j])

\* a terminal state holds exactly what RunMain computes from the inputs
OutIsRunMain ==
    pc \in Terminal =>
        out = RunMain(json_solution_to_score, json_solutions_scored, arg_ref_point)

\* a dominates b: no worse in every coordinate, better in one
Dominates(a, b) ==
    /\ \A k \in DOMAIN a : a[k] <= b[k]
    /\ \E k \in DOMAIN a : a[k] < b[k]

\* the measure of the union of the boxes [p, r], p in S: the number of unit
\* cells [c, c+1) that lie in one of the boxes
UnionMeasure(S, r) ==
    Cardinality({c \in [DOMAIN r -> 0..MaxVal] :
                    \E p \in S : \A k \in DOMAIN r : p[k] <= c[k] /\ c[k] < r[k]})

\* C5: feasible(solution) returns true iff the objective has no missing
\* component and the constraint is absent, null or empty, or a scalar <= 0, or
\* a vector whose every component is <= 0; a solution whose objective has a
\* missing component is classified infeasible whatever its constraint is.
C5_FeasibleIff ==
    fpc = "returned" =>
        LET o == fsolution.objective
            c == fsolution.constraint
            complete == \A i \in DOMAIN o : o[i] # Null
            satisfied ==
                \/ c.kind \in {"absent", "null"}
                \/ c.kind = "vector" /\ c.val = <<>>
                \/ c.kind = "scalar" /\ c.val[1] # Null /\ c.val[1].num <= 0
                \/ c.kind = "vector"
                      /\ \A i \in DOMAIN c.val : c.val[i] # Null /\ c.val[i].num <= 0
        IN  /\ (fresult = "True") <=> (complete /\ satisfied)
            /\ ~complete => fresult = "False"

\* an objective with a missing component next to a constraint that holds a
\* missing value and a violation
C5_Witness ==
    /\ fpc = "returned"
    /\ fresult = "False"
    /\ Null \in Range(fsolution.objective)
    /\ fsolution.constraint = VectorConstraint(<<Null, Num(1)>>)

\* C4: for a duplicate-free array, is_pareto_efficient marks exactly the rows
\* that no other row dominates, whatever the index order.
C4_ExactlyNonDominated ==
    ppc = "returned" =>
        \A j \in DOMAIN costs :
            is_efficient[j] <=> ~\E i \in DOMAIN costs : Dominates(costs[i], costs[j])

\* three rows, the first dominated by the second, the second by the third
C4_Witness ==
    /\ ppc = "returned"
    /\ Len(costs) = 3
    /\ Dominates(costs[2], costs[1])
    /\ Dominates(costs[3], costs[2])
    /\ is_efficient = <<FALSE, FALSE, TRUE>>

\* ---------------------------------------------------------------- main(): properties
\* the score printed, when exactly one object was printed and it holds a number
IsScore(o) == Len(o) = 1 /\ ~o[1].score.null /\ o[1].error = "none"

ScoreOf(o) == o[1].score.num

C2_AllStrictlyBelow ==
    pc \in {"Pruned", "Deduplicated", "FrontComputed", "Scored"} =>
        \A i \in DOMAIN hv_objectives :
            \A k \in DOMAIN hv_objectives[i] : hv_objectives[i][k] < ref_point.val[k]

\* C2 amended: after pruning hv_objectives holds exactly the feasible points
\* that are <= the reference point in every coordinate and < in at least one;
\* a point that equals the reference point in some coordinates, not all, stays.
C2_KeepsParetoDominating ==
    pc \in {"Pruned", "Deduplicated", "FrontComputed", "Scored"} =>
        LET r == ref_point.val
            keeps(y) == /\ \A k \in DOMAIN y : y[k] <= r[k]
                        /\ \E k \in DOMAIN y : y[k] < r[k]
        IN  /\ \A i \in DOMAIN hv_objectives : keeps(hv_objectives[i])
            /\ \A i \in DOMAIN feasible_objectives :
                   keeps(feasible_objectives[i])
                       => feasible_objectives[i] \in Range(hv_objectives)

\* a retained point that equals the reference point in one coordinate
C2_Witness ==
    /\ pc = "Pruned"
    /\ \E i \in DOMAIN hv_objectives :
           \E k \in DOMAIN hv_objectives[i] : hv_objectives[i][k] = ref_point.val[k]

\* C3 as stated: without a supplied reference point and with two or more
\* feasible points, the reference point is the coordinate-wise maximum over
\* ALL feasible points.
C3_MaxOverAllFeasible ==
    (pc = "RefPointResolved" /\ ~Supplied(arg_ref_point)) =>
        \A k \in DOMAIN ref_point.val :
            /\ \A i \in DOMAIN feasible_objectives :
                   feasible_objectives[i][k] <= ref_point.val[k]
            /\ \E i \in DOMAIN feasible_objectives :
                   feasible_objectives[i][k] = ref_point.val[k]

\* C3 amended: the reference point is the coordinate-wise maximum over the
\* feasible points that no feasible point dominates.
C3_MaxOverNonDominated ==
    (pc = "RefPointResolved" /\ ~Supplied(arg_ref_point)) =>
        LET nd == {i \in DOMAIN feasible_objectives :
                      ~\E j \in DOMAIN feasible_objectives :
                          Dominates(feasible_objectives[j], feasible_objectives[i])}
        IN  /\ Len(feasible_objectives) >= 2
            /\ DOMAIN ref_point.val = DOMAIN feasible_objectives[1]
            /\ \A k \in DOMAIN ref_point.val :
                   /\ \A i \in nd : feasible_objectives[i][k] <= ref_point.val[k]
                   /\ \E i \in nd : feasible_objectives[i][k] = ref_point.val[k]

\* a nadir point below a dominated feasible point
C3_Witness ==
    /\ pc = "RefPointResolved"
    /\ ~Supplied(arg_ref_point)
    /\ \E i \in DOMAIN feasible_objectives :
           \E k \in DOMAIN ref_point.val : feasible_objectives[i][k] > ref_point.val[k]

\* the reference point was resolved and pruning ran to its end
PruningDone ==
    /\ WellFormed
    /\ feasible_objectives # <<>>
    /\ ~NotRefPoint(ref_point)
    /\ MatchingDimension(ref_point.val)

\* C6: each degenerate condition ends with the one output {"score": 0} and
\* never with an error: (1) no feasible point, for any reference point, also
\* one of another length; (2) one feasible point and no reference point;
\* (3) no point survives pruning; (4) the front is empty.
C6_DegenerateIsZeroScore ==
    pc \in Terminal =>
        LET zero == pc = "ZeroScore" /\ out = <<ScoreObject(0)>>
        IN  /\ (WellFormed /\ feasible_objectives = <<>>) => zero
            /\ (WellFormed /\ Len(feasible_objectives) = 1 /\ ~Supplied(arg_ref_point))
                   => zero
            /\ (PruningDone /\ hv_objectives = <<>>) => zero
            /\ (PruningDone /\ efficient_objectives = <<>>) => zero

\* no point survived pruning against a supplied reference point
C6_Witness ==
    /\ pc = "ZeroScore"
    /\ Supplied(arg_ref_point)
    /\ Len(feasible_objectives) >= 2
    /\ PruningDone
    /\ hv_objectives = <<>>
    /\ out = <<ScoreObject(0)>>

\* C7: a second copy, in solutions_scored, of a solution of the invocation
\* leaves the output as it is, for every reference-point setting.
C7_CopyKeepsOutput ==
    (pc \in Terminal
        /\ ParseRaises(json_solution_to_score, json_solutions_scored) = "none") =>
        \A s \in Range(Append(json_solutions_scored.value, json_solution_to_score.value)) :
            /\ RunMain(json_solution_to_score,
                       ArrayLine(Append(json_solutions_scored.value, s)),
                       arg_ref_point) = out
            /\ RunMain(json_solution_to_score,
                       ArrayLine(<<s>> \o json_solutions_scored.value),
                       arg_ref_point) = out

\* one feasible point and no reference point: the copy makes it two feasible
\* points, and the nadir point replaces the exit
C7_Witness ==
    /\ pc = "ZeroScore"
    /\ ~Supplied(arg_ref_point)
    /\ Len(feasible_objectives) = 1
    /\ Len(json_solutions_scored.value) = 1
    /\ feasible(json_solutions_scored.value[1]) = "True"
    /\ RunMain(json_solution_to_score,
               ArrayLine(Append(json_solutions_scored.value, json_solutions_scored.value[1])),
               arg_ref_point) = <<ScoreObject(0)>>

C9_NadirScoreIsZero ==
    (/\ pc \in Terminal
     /\ WellFormed
     /\ ~Supplied(arg_ref_point)
     /\ Len(feasible_objectives) >= 2
     /\ EqualDimensions)
    => out = <<ScoreObject(0)>>

\* C9 amended: with the nadir point as reference point the score is 0 when
\* there are exactly two feasible points, and in general it is positive
\* exactly when some feasible point is strictly below the nadir point in
\* every coordinate.
C9_NadirScore ==
    (/\ pc \in Terminal
     /\ WellFormed
     /\ ~Supplied(arg_ref_point)
     /\ Len(feasible_objectives) >= 2
     /\ EqualDimensions)
    => (/\ IsScore(out)
        /\ Len(feasible_objectives) = 2 => ScoreOf(out) = 0
        /\ ScoreOf(out) > 0 <=>
               \E i \in DOMAIN feasible_objectives :
                   \A k \in DOMAIN ref_point.val :
                       feasible_objectives[i][k] < ref_point.val[k])

\* the two feasible points (0, 2) and (1, 0) of the scenario, up to
\* translation: nadir point (1, 2), score 0
C9_Witness ==
    /\ pc = "Scored"
    /\ ~Supplied(arg_ref_point)
    /\ Range(feasible_objectives) = {<<0, 2>> \o [k \in 1..(Dim - 2) |-> 0],
                                     <<1, 0>> \o [k \in 1..(Dim - 2) |-> 0]}
    /\ ref_point.val = <<1, 2>> \o [k \in 1..(Dim - 2) |-> 0]
    /\ out = <<ScoreObject(0)>>

\* nothing is printed before the end and one object at the end: a number for
\* Scored and ZeroScore, {"score": null, "error": ...} for Fatal, which is
\* how malformed JSON, a schema violation and a dimension mismatch end
OneOutput ==
    /\ pc \notin Terminal => out = <<>>
    /\ pc \in Terminal => Len(out) = 1
    /\ pc \in {"Scored", "ZeroScore"} => IsScore(out)
    /\ pc = "ZeroScore" => ScoreOf(out) = 0
    /\ pc = "Fatal" => out[1].score = Null /\ out[1].error # "none"
    /\ (pc \in Terminal
          /\ ParseRaises(json_solution_to_score, json_solutions_scored) # "none")
       => pc = "Fatal"
    /\ (pc \in Terminal /\ WellFormed /\ feasible_objectives # <<>>
          /\ Supplied(arg_ref_point) /\ ~MatchingDimension(arg_ref_point.val))
       => pc = "Fatal"

\* C10: an invocation that received both input lines ends in exactly one of
\* Scored, ZeroScore and Fatal with exactly one object printed: a number for
\* Scored and ZeroScore, {"score": null, "error": ...} for Fatal (malformed
\* JSON, schema violation, dimension mismatch); no stage runs and nothing is
\* printed after the end.
C10_OneTerminalOutcome ==
    /\ []OneOutput
    /\ [][pc \notin Terminal]_vars
    /\ <>(pc \in Terminal)

\* a ZeroScore exit that printed its one object
C10_Witness ==
    /\ pc = "ZeroScore"
    /\ out = <<ScoreObject(0)>>
    /\ feasible_objectives # <<>>

\* a run of main() goes on until it returns, exits or raises
FairSpec == Init /\ [][Next]_vars /\ WF_vars(Next)

====
